---------------------------- MODULE Spec2Model ----------------------------
(***************************************************************************)
(* Restaurant ordering API (src/main.py, src/schemas.py): the menuitem and *)
(* order collections of the document store, the HTTP handlers that read    *)
(* and write them, pydantic's input validation, and the float arithmetic   *)
(* of create_order's totals.                                               *)
(*                                                                         *)
(* Money.  A request carries a price as a JSON decimal; the model writes   *)
(* it as an integer number of mills (1/1000 dollar), and converts it to    *)
(* the binary64 value Python parses it to.  create_order's arithmetic is   *)
(* carried out on binary64 values, round-to-nearest-even, exactly as       *)
(* CPython does; round(x, 2) yields a whole number of cents, which is how  *)
(* the stored subtotal, tax and total are written here.                    *)
(***************************************************************************)
EXTENDS Integers, Sequences, FiniteSets, TLC

VARIABLES
    dbUp,       \* database.db is not None (fixed when the process starts)
    menuitem,   \* the "menuitem" collection, in insertion order
    order,      \* the "order" collection, in insertion order
    pc,         \* per worker thread: "idle", or "seeding" inside seed_menu's loop
    inserted,   \* per worker thread: seed_menu's local counter `inserted`
    resp        \* per worker thread: the last HTTP response it sent

vars == <<dbUp, menuitem, order, pc, inserted, resp>>

---------------------------------------------------------------------------
(* Natural numbers of any size, as little-endian sequences of limbs.       *)

Base == 32768

RECURSIVE BNorm(_)
BNorm(a) ==
    IF a = <<>> THEN <<>>
    ELSE IF a[Len(a)] = 0 THEN BNorm(SubSeq(a, 1, Len(a) - 1))
    ELSE a

RECURSIVE BFromInt(_)
BFromInt(n) ==
    IF n = 0 THEN <<>> ELSE <<n % Base>> \o BFromInt(n \div Base)

RECURSIVE BToInt(_)
BToInt(a) ==
    IF a = <<>> THEN 0 ELSE Head(a) + Base * BToInt(Tail(a))

RECURSIVE BAddC(_, _, _)
BAddC(a, b, c) ==
    IF a = <<>> /\ b = <<>> THEN (IF c = 0 THEN <<>> ELSE <<c>>)
    ELSE LET x == (IF a = <<>> THEN 0 ELSE Head(a))
                  + (IF b = <<>> THEN 0 ELSE Head(b)) + c
         IN  <<x % Base>> \o BAddC(IF a = <<>> THEN <<>> ELSE Tail(a),
                                   IF b = <<>> THEN <<>> ELSE Tail(b),
                                   x \div Base)

BAdd(a, b) == BNorm(BAddC(a, b, 0))

\* a - b, for a >= b
RECURSIVE BSubC(_, _, _)
BSubC(a, b, c) ==
    IF a = <<>> THEN <<>>
    ELSE LET x == Head(a) - (IF b = <<>> THEN 0 ELSE Head(b)) - c
         IN  <<x % Base>> \o BSubC(Tail(a),
                                   IF b = <<>> THEN <<>> ELSE Tail(b),
                                   IF x < 0 THEN 1 ELSE 0)

BSub(a, b) == BNorm(BSubC(a, b, 0))

\* -1, 0, 1 as a < b, a = b, a > b (both normalised)
RECURSIVE BCmp(_, _)
BCmp(a, b) ==
    IF Len(a) # Len(b) THEN (IF Len(a) < Len(b) THEN -1 ELSE 1)
    ELSE IF a = <<>> THEN 0
    ELSE IF a[Len(a)] # b[Len(b)]
         THEN (IF a[Len(a)] < b[Len(b)] THEN -1 ELSE 1)
    ELSE BCmp(SubSeq(a, 1, Len(a) - 1), SubSeq(b, 1, Len(b) - 1))

\* a * k, for 0 <= k < Base
RECURSIVE BMulSmallC(_, _, _)
BMulSmallC(a, k, c) ==
    IF a = <<>> THEN (IF c = 0 THEN <<>> ELSE <<c>>)
    ELSE LET x == Head(a) * k + c
         IN  <<x % Base>> \o BMulSmallC(Tail(a), k, x \div Base)

BMulSmall(a, k) == BNorm(BMulSmallC(a, k, 0))

RECURSIVE BMul(_, _)
BMul(a, b) ==
    IF b = <<>> THEN <<>>
    ELSE BAdd(BMulSmall(a, Head(b)),
              LET hi == BMul(a, Tail(b))
              IN  IF hi = <<>> THEN <<>> ELSE <<0>> \o hi)

\* quotient and remainder of a by k, for 0 < k < Base
RECURSIVE BDivSmallR(_, _)
BDivSmallR(a, k) ==
    IF a = <<>> THEN [q |-> <<>>, r |-> 0]
    ELSE LET hi  == BDivSmallR(Tail(a), k)
             cur == hi.r * Base + Head(a)
         IN  [q |-> <<cur \div k>> \o hi.q, r |-> cur % k]

BDivSmall(a, k) ==
    LET d == BDivSmallR(a, k) IN [q |-> BNorm(d.q), r |-> d.r]

RECURSIVE Pow2(_)
Pow2(n) == IF n = 0 THEN 1 ELSE 2 * Pow2(n - 1)

RECURSIVE Zeros(_)
Zeros(n) == IF n = 0 THEN <<>> ELSE <<0>> \o Zeros(n - 1)

\* a * 2^s
BShl(a, s) ==
    IF a = <<>> THEN <<>>
    ELSE Zeros(s \div 15) \o BMulSmall(a, Pow2(s % 15))

\* floor(a / 2^s)
BShr(a, s) ==
    IF Len(a) <= s \div 15 THEN <<>>
    ELSE BDivSmall(SubSeq(a, (s \div 15) + 1, Len(a)), Pow2(s % 15)).q

RECURSIVE IntBitLen(_)
IntBitLen(n) == IF n = 0 THEN 0 ELSE 1 + IntBitLen(n \div 2)

BBitLen(a) ==
    IF a = <<>> THEN 0 ELSE 15 * (Len(a) - 1) + IntBitLen(a[Len(a)])

BOdd(a) == a # <<>> /\ a[1] % 2 = 1

\* floor(a / 2^s), moved up by one when the part cut off is more than a
\* half, or is a half and the floor is odd (round half to even)
BShrHalfEven(a, s) ==
    IF s = 0 THEN a
    ELSE LET q == BShr(a, s)
             r == BSub(a, BShl(q, s))
             c == BCmp(r, BShl(<<1>>, s - 1))
         IN  IF c > 0 \/ (c = 0 /\ BOdd(q)) THEN BAdd(q, <<1>>) ELSE q

---------------------------------------------------------------------------
(* binary64 values >= 0: [m, e] stands for m * 2^e, m of at most 53 bits.  *)
(* Neither overflow nor subnormals arise for the amounts of the model.     *)

MantissaBits == 53

Binary64(n, e) ==
    LET len == BBitLen(n)
    IN  IF len <= MantissaBits THEN [m |-> n, e |-> e]
        ELSE [m |-> BShrHalfEven(n, len - MantissaBits),
              e |-> e + (len - MantissaBits)]

FZero == [m |-> <<>>, e |-> 0]

FMul(x, y) == Binary64(BMul(x.m, y.m), x.e + y.e)

FAdd(x, y) ==
    LET e == IF x.e < y.e THEN x.e ELSE y.e
    IN  Binary64(BAdd(BShl(x.m, x.e - e), BShl(y.m, y.e - e)), e)

IntToFloat(n) == [m |-> BFromInt(n), e |-> 0]

\* the binary64 value nearest to n / d (n >= 0, 0 < d < Base): what a JSON
\* number or a decimal literal of the source parses to
FromDecimal(n, d) ==
    LET qr == BDivSmall(BShl(BFromInt(n), 75), d)
        sticky == IF qr.r = 0 THEN <<>> ELSE <<1>>
    IN  Binary64(BAdd(BMulSmall(qr.q, 2), sticky), -76)

\* round(x, 2), as a whole number of cents: CPython rounds the exact value
\* of x correctly, ties to even, and returns the binary64 nearest to the
\* decimal it got
PyRound2(x) ==
    LET n == BMulSmall(x.m, 100)
    IN  BToInt(IF x.e >= 0 THEN BShl(n, x.e) ELSE BShrHalfEven(n, -x.e))

CentsToFloat(c) == FromDecimal(c, 100)

MillsToFloat(p) == FromDecimal(p, 1000)

---------------------------------------------------------------------------
(* Bounds of the model.                                                    *)

MaxOrders == 2       \* orders in the order collection
MaxMenuAdds == 1     \* menu items added through POST /api/menu

Workers == {1, 2}    \* the threads of the server's pool
Serial == {1}        \* one thread: requests served one after the other

---------------------------------------------------------------------------
(* Requests.  A JSON body is a record; a field the body leaves out is not  *)
(* in the record's domain.                                                 *)

MenuItemRequests ==
    {[name |-> "Soup", price |-> 0, category |-> "Starters"],
     [name |-> "", price |-> 0, category |-> "Starters"],
     [name |-> "Soup", price |-> 0, category |-> ""],
     [name |-> "Soup", price |-> -1000, category |-> "Starters"],
     [name |-> "", price |-> -1000, category |-> ""],
     [price |-> 0, category |-> "Starters"],
     [name |-> "Soup", category |-> "Starters"],
     [name |-> "Soup", price |-> 0]}

Pizza == [menu_item_id |-> "m1", name |-> "Margherita Pizza",
          unit_price |-> 10990, quantity |-> 2]

Lemonade == [menu_item_id |-> "m4", name |-> "Lemonade",
             unit_price |-> 3750, quantity |-> 1]

Breadstick == [menu_item_id |-> "m9", name |-> "Breadstick",
               unit_price |-> 125, quantity |-> 1]

NoLemonade == [menu_item_id |-> "m4", name |-> "Lemonade",
               unit_price |-> 3750, quantity |-> 0]

Refund == [menu_item_id |-> "m4", name |-> "Lemonade",
           unit_price |-> -1000, quantity |-> 1]

ItemLists ==
    {<<>>, <<Pizza, Lemonade>>, <<Breadstick>>,
     <<NoLemonade>>, <<Pizza, Refund>>, <<Refund, NoLemonade>>}

\* the second kind of body carries a "status" key, which CreateOrderRequest
\* does not declare
OrderRequests ==
    {[customer |-> [name |-> "Ann"], items |-> its] : its \in ItemLists}
    \cup {[customer |-> [name |-> "Ann"], items |-> its,
           status |-> "completed"] : its \in ItemLists}

\* GET /api/orders with and without the limit query parameter
ListRequests ==
    {[path |-> "/api/orders"]}
    \cup {[path |-> "/api/orders", limit |-> l] : l \in -1..MaxOrders}

---------------------------------------------------------------------------
(* Input validation (pydantic): the fields that fail.  FastAPI answers 422 *)
(* with them, before the handler's body runs, unless the set is empty.     *)

Required(req, fields) == {f \in fields : f \notin DOMAIN req}

MenuItemErrors(req) ==
    Required(req, {"name", "price", "category"})
    \cup (IF "price" \in DOMAIN req /\ ~(req.price >= 0)
          THEN {"price"} ELSE {})

\* as OrderItemErrors, with quantity held to ge=0
OrderItemErrorsFromZero(oi) ==
    Required(oi, {"menu_item_id", "name", "unit_price", "quantity"})
    \cup (IF "unit_price" \in DOMAIN oi /\ ~(oi.unit_price >= 0)
          THEN {"unit_price"} ELSE {})
    \cup (IF "quantity" \in DOMAIN oi /\ ~(oi.quantity >= 0)
          THEN {"quantity"} ELSE {})

OrderItemErrors(oi) ==
    Required(oi, {"menu_item_id", "name", "unit_price", "quantity"})
    \cup (IF "unit_price" \in DOMAIN oi /\ ~(oi.unit_price >= 0)
          THEN {"unit_price"} ELSE {})
    \cup (IF "quantity" \in DOMAIN oi /\ ~(oi.quantity >= 1)
          THEN {"quantity"} ELSE {})

CustomerErrors(c) == Required(c, {"name"})

CreateOrderRequestErrors(req) ==
    Required(req, {"customer", "items"})
    \cup (IF "customer" \in DOMAIN req THEN CustomerErrors(req.customer) ELSE {})
    \cup (IF "items" \in DOMAIN req
          THEN UNION {OrderItemErrors(req.items[i]) : i \in DOMAIN req.items}
          ELSE {})

\* the validated model: declared fields only, defaults filled in
MenuItemModel(req) ==
    [name |-> req.name, price |-> req.price, category |-> req.category,
     is_available |-> TRUE]

---------------------------------------------------------------------------
(* The document store gateway (module database of the repository).         *)

\* create_document: the collection with the document added; the identifier
\* the store gives it is its place in the collection
NewId(coll) == Len(coll) + 1

CreateDocument(coll, doc) == Append(coll, [_id |-> NewId(coll)] @@ doc)

\* get_documents: the results a read may give.  For a limit of at least 1,
\* the first `limit` documents in the store's order.  The gateway's answer
\* to a limit below 1, which main.py hands on unchecked, is not fixed by
\* anything the repository states: any leading part of the collection.
Prefix(coll, n) == SubSeq(coll, 1, IF n < Len(coll) THEN n ELSE Len(coll))

GetDocuments(coll, limit) ==
    IF limit >= 1 THEN {Prefix(coll, limit)}
    ELSE {Prefix(coll, n) : n \in 0..Len(coll)}

\* count_documents({})
CountDocuments(coll) == Len(coll)

---------------------------------------------------------------------------
(* seed_menu's samples (prices in mills).                                  *)

Samples ==
    << [name |-> "Margherita Pizza", price |-> 10990, category |-> "Mains",
        is_available |-> TRUE],
       [name |-> "Caesar Salad", price |-> 8500, category |-> "Starters",
        is_available |-> TRUE],
       [name |-> "Spaghetti Bolognese", price |-> 13250, category |-> "Mains",
        is_available |-> TRUE],
       [name |-> "Lemonade", price |-> 3750, category |-> "Drinks",
        is_available |-> TRUE],
       [name |-> "Chocolate Brownie", price |-> 6000, category |-> "Desserts",
        is_available |-> TRUE] >>

SampleNames == {Samples[i].name : i \in DOMAIN Samples}

---------------------------------------------------------------------------
(* create_order's totals.                                                  *)

TaxRate == FromDecimal(8, 100)      \* the literal 0.08

\* sum(oi.unit_price * oi.quantity for oi in items): from the int 0, left
\* to right (for up to two items, the compensated sum of CPython 3.12
\* gives the same float)
RECURSIVE Subtotal(_)
Subtotal(items) ==
    IF items = <<>> THEN FZero
    ELSE LET n    == Len(items)
             term == FMul(MillsToFloat(items[n].unit_price),
                          IntToFloat(items[n].quantity))
         IN  IF n = 1 THEN term
             ELSE FAdd(Subtotal(SubSeq(items, 1, n - 1)), term)

\* subtotal, tax and total as the Order document gets them, in cents
ComputeTotals(items) ==
    LET subtotal == Subtotal(items)
        tax      == PyRound2(FMul(subtotal, TaxRate))
        total    == PyRound2(FAdd(subtotal, CentsToFloat(tax)))
    IN  [subtotal |-> PyRound2(subtotal), tax |-> tax, total |-> total]

\* ComputeTotals over the item lists that pass validation, worked out once
TotalsOf ==
    [items \in {l \in ItemLists :
                  \A i \in DOMAIN l : OrderItemErrors(l[i]) = {}}
        |-> ComputeTotals(items)]

\* as OrderStatus, but a status in the body is let through
OrderStatusFromBody(req) ==
    IF "status" \in DOMAIN req THEN req.status ELSE "pending"

OrderStatus(req) == "pending"

None == "None"

OrderDoc(req) ==
    LET t == TotalsOf[req.items]
    IN  [customer |-> req.customer, items |-> req.items,
         subtotal |-> t.subtotal, tax |-> t.tax, total |-> t.total,
         status |-> OrderStatus(req),
         table_number |-> IF "table_number" \in DOMAIN req
                          THEN req.table_number ELSE None,
         pickup |-> IF "pickup" \in DOMAIN req THEN req.pickup ELSE FALSE]

---------------------------------------------------------------------------
(* The handlers.  Worker w serves one request at a time; every call of the *)
(* gateway either succeeds or raises (the store cannot be reached, or was  *)
(* never configured).                                                      *)

DefaultLimit == 50

IdString(id) == ToString(id)

Send(w, r) == resp' = [resp EXCEPT ![w] = r]

ServerError(op) == [op |-> op, status |-> 500, detail |-> "store error"]

Unprocessable(op, errs) == [op |-> op, status |-> 422, detail |-> errs]

MenuAdds == Cardinality({i \in DOMAIN menuitem : menuitem[i].name \notin SampleNames})

\* GET /api/menu
GetMenu(w) ==
    /\ pc[w] = "idle"
    /\ \E ok \in BOOLEAN :
          IF dbUp /\ ok
          THEN Send(w, [op |-> "get_menu", status |-> 200,
                        body |-> [i \in DOMAIN menuitem |->
                                    [name |-> menuitem[i].name,
                                     price |-> menuitem[i].price,
                                     category |-> menuitem[i].category,
                                     is_available |-> menuitem[i].is_available]]])
          ELSE Send(w, ServerError("get_menu"))
    /\ UNCHANGED <<dbUp, menuitem, order, pc, inserted>>

\* POST /api/menu
AddMenuItem(w, req) ==
    /\ pc[w] = "idle"
    /\ IF MenuItemErrors(req) # {}
       THEN /\ Send(w, Unprocessable("add_menu_item", MenuItemErrors(req)))
            /\ UNCHANGED menuitem
       ELSE \E ok \in BOOLEAN :
               IF dbUp /\ ok
               THEN /\ MenuAdds < MaxMenuAdds
                    /\ menuitem' = CreateDocument(menuitem, MenuItemModel(req))
                    /\ Send(w, [op |-> "add_menu_item", status |-> 201,
                                id |-> IdString(NewId(menuitem))])
               ELSE /\ Send(w, ServerError("add_menu_item"))
                    /\ UNCHANGED menuitem
    /\ UNCHANGED <<dbUp, order, pc, inserted>>

\* as MenuPopulated, off by one
MenuPopulatedMoreThanOne(existing) == existing > 1

\* `if existing > 0`
MenuPopulated(existing) == existing > 0

\* POST /api/menu/seed, up to the loop: the count, and the early return
SeedCheck(w) ==
    /\ pc[w] = "idle"
    /\ \E ok \in BOOLEAN :
          IF dbUp /\ ~ok
          THEN /\ Send(w, ServerError("seed_menu"))
               /\ UNCHANGED <<pc, inserted>>
          ELSE LET existing == IF dbUp THEN CountDocuments(menuitem) ELSE 0
               IN  IF MenuPopulated(existing)
                   THEN /\ Send(w, [op |-> "seed_menu", status |-> 200,
                                    inserted |-> 0,
                                    message |-> "Menu already populated"])
                        /\ UNCHANGED <<pc, inserted>>
                   ELSE /\ pc' = [pc EXCEPT ![w] = "seeding"]
                        /\ inserted' = [inserted EXCEPT ![w] = 0]
                        /\ UNCHANGED resp
    /\ UNCHANGED <<dbUp, menuitem, order>>

\* as AfterSeedError, with the n inserts of the call taken back
AfterSeedErrorRolledBack(coll, n) == SubSeq(coll, 1, Len(coll) - n)

\* what the except clause leaves in the collection when an insert of the
\* loop has raised: nothing is taken back
AfterSeedError(coll, n) == coll

\* as SeedWrite, but a sample whose name the collection holds is not
\* written again
SeedWriteIfAbsent(coll, n) ==
    IF \E i \in DOMAIN coll : coll[i].name = Samples[n + 1].name
    THEN coll
    ELSE CreateDocument(coll, Samples[n + 1])

\* create_document("menuitem", s) for the sample after the n inserted so far
SeedWrite(coll, n) == CreateDocument(coll, Samples[n + 1])

\* POST /api/menu/seed, one turn of the loop, and the return after the last
SeedInsert(w) ==
    /\ pc[w] = "seeding"
    /\ \E ok \in BOOLEAN :
          IF dbUp /\ ok
          THEN /\ menuitem' = SeedWrite(menuitem, inserted[w])
               /\ inserted' = [inserted EXCEPT ![w] = @ + 1]
               /\ IF inserted[w] + 1 = Len(Samples)
                  THEN /\ pc' = [pc EXCEPT ![w] = "idle"]
                       /\ Send(w, [op |-> "seed_menu", status |-> 200,
                                   inserted |-> inserted[w] + 1])
                  ELSE UNCHANGED <<pc, resp>>
          ELSE /\ menuitem' = AfterSeedError(menuitem, inserted[w])
               /\ pc' = [pc EXCEPT ![w] = "idle"]
               /\ Send(w, ServerError("seed_menu"))
               /\ UNCHANGED inserted
    /\ UNCHANGED <<dbUp, order>>

\* the two ways create_order ends once the body is valid
OrderCreated(id, total) ==
    [op |-> "create_order", status |-> 201, id |-> id, total |-> total]

\* as OrderFailed, with the identifier in the error
OrderFailedWithId(id) ==
    [op |-> "create_order", status |-> 500, detail |-> "store error", id |-> id]

OrderFailed(id) == ServerError("create_order")

\* POST /api/orders
CreateOrder(w, req) ==
    /\ pc[w] = "idle"
    /\ IF CreateOrderRequestErrors(req) # {}
       THEN /\ Send(w, Unprocessable("create_order", CreateOrderRequestErrors(req)))
            /\ UNCHANGED order
       ELSE \E ok \in BOOLEAN :
               IF dbUp /\ ok
               THEN /\ Len(order) < MaxOrders
                    /\ order' = CreateDocument(order, OrderDoc(req))
                    /\ Send(w, OrderCreated(IdString(NewId(order)),
                                            OrderDoc(req).total))
               ELSE /\ Send(w, OrderFailed(IdString(NewId(order))))
                    /\ UNCHANGED order
    /\ UNCHANGED <<dbUp, menuitem, pc, inserted>>

\* map_order: "_id" gives way to "id", the identifier as a string
MapOrder(doc) ==
    [f \in (DOMAIN doc \ {"_id"}) \cup {"id"} |->
        IF f = "id" THEN IdString(doc._id) ELSE doc[f]]

Limit(q) == IF "limit" \in DOMAIN q THEN q.limit ELSE DefaultLimit

\* GET /api/orders
ListOrders(w, q) ==
    /\ pc[w] = "idle"
    /\ \E ok \in BOOLEAN :
          IF dbUp /\ ok
          THEN \E docs \in GetDocuments(order, Limit(q)) :
                  Send(w, [op |-> "list_orders", status |-> 200,
                           body |-> [i \in DOMAIN docs |-> MapOrder(docs[i])]])
          ELSE Send(w, ServerError("list_orders"))
    /\ UNCHANGED <<dbUp, menuitem, order, pc, inserted>>

---------------------------------------------------------------------------
(* Specifications.                                                         *)

NoResponse == [op |-> "none", status |-> 0]

Init ==
    /\ dbUp \in BOOLEAN
    /\ menuitem = <<>>
    /\ order = <<>>
    /\ pc = [w \in Workers |-> "idle"]
    /\ inserted = [w \in Workers |-> 0]
    /\ resp = [w \in Workers |-> NoResponse]

\* the whole API, requests served one after the other
Next ==
    \E w \in Serial :
        \/ GetMenu(w)
        \/ \E req \in MenuItemRequests : AddMenuItem(w, req)
        \/ SeedCheck(w)
        \/ SeedInsert(w)
        \/ \E req \in OrderRequests : CreateOrder(w, req)
        \/ \E q \in ListRequests : ListOrders(w, q)

Spec == Init /\ [][Next]_vars

\* seed_menu on two threads at once
NextSeed ==
    \E w \in Workers :
        \/ SeedCheck(w)
        \/ SeedInsert(w)

SpecSeed == Init /\ [][NextSeed]_vars

---------------------------------------------------------------------------
(* Properties.                                                             *)

\* worker w has just answered 422 and neither collection has changed
RejectedBy(w) ==
    /\ resp'[w].status = 422
    /\ "id" \notin DOMAIN resp'[w]
    /\ menuitem' = menuitem
    /\ order' = order

HasBadItem(req) ==
    \E i \in DOMAIN req.items :
        req.items[i].quantity < 1 \/ req.items[i].unit_price < 0

\* C4: a POST /api/menu with a price below 0, and a POST /api/orders with
\* an item of quantity below 1 or unit_price below 0, are answered 422 with
\* no identifier, and leave the menuitem and order collections as they were.
C4_InvalidInputRejected ==
    [][\A w \in Serial :
          /\ \A req \in MenuItemRequests :
                ("price" \in DOMAIN req /\ req.price < 0 /\ AddMenuItem(w, req))
                    => RejectedBy(w)
          /\ \A req \in OrderRequests :
                (HasBadItem(req) /\ CreateOrder(w, req)) => RejectedBy(w)]_vars

\* a quantity of 0 and a price of -1 have both been refused, nothing stored
C4_Witness ==
    /\ resp[1].op = "create_order"
    /\ resp[1].status = 422
    /\ resp[1].detail = {"quantity", "unit_price"}
    /\ order = <<>>

\* round(round(S, 2) + round(0.08 * S, 2), 2) in cents, S the unrounded sum
ClaimedTotal(items) ==
    LET S == Subtotal(items)
    IN  PyRound2(FAdd(CentsToFloat(PyRound2(S)),
                      CentsToFloat(PyRound2(FMul(S, TaxRate)))))

ClaimedTotalOf ==
    [items \in DOMAIN TotalsOf |-> ClaimedTotal(items)]

\* C1: the total stored with every order, and the total returned for it,
\* is round(round(S, 2) + round(0.08 * S, 2), 2), S being the unrounded sum
\* of unit_price * quantity over the order's items.
C1_TotalOfRoundedParts ==
    /\ \A i \in DOMAIN order : order[i].total = ClaimedTotalOf[order[i].items]
    /\ \A w \in Workers :
          (resp[w].op = "create_order" /\ resp[w].status = 201)
              => \E i \in DOMAIN order :
                    /\ IdString(order[i]._id) = resp[w].id
                    /\ resp[w].total = ClaimedTotalOf[order[i].items]

\* C2: every stored order has total = subtotal + tax on its stored fields,
\* its stored subtotal is the sum of unit_price * quantity rounded to two
\* decimals, and none of the three is negative.
C2_StoredTotalsAddUp ==
    \A i \in DOMAIN order :
        /\ order[i].total = order[i].subtotal + order[i].tax
        /\ order[i].subtotal = PyRound2(Subtotal(order[i].items))
        /\ order[i].subtotal >= 0
        /\ order[i].tax >= 0
        /\ order[i].total >= 0

IsSampleSet(coll) ==
    /\ Len(coll) = Len(Samples)
    /\ \A i \in DOMAIN coll :
          [f \in DOMAIN Samples[i] |-> coll[i][f]] = Samples[i]

\* C3: with requests served one after the other, a seed_menu that finds
\* the menuitem collection empty and is not stopped by a store error
\* returns inserted=5 and leaves exactly the five samples; a seed_menu that
\* finds a record in the collection inserts nothing, changes nothing, and
\* returns inserted=0 whenever the count itself does not fail.
C3_SeedOnlyWhenEmpty ==
    [][\A w \in Serial :
          /\ (SeedInsert(w) /\ resp'[w].status = 200 /\ pc'[w] = "idle")
                => (resp'[w].inserted = 5 /\ IsSampleSet(menuitem'))
          /\ (SeedCheck(w) /\ menuitem # <<>>)
                => /\ pc'[w] = "idle"
                   /\ menuitem' = menuitem
                   /\ resp'[w].status = 200 => resp'[w].inserted = 0]_vars

\* a seed has put the five samples in, and the seed after it returned 0
C3_Witness ==
    /\ IsSampleSet(menuitem)
    /\ resp[1].op = "seed_menu"
    /\ resp[1].status = 200
    /\ resp[1].inserted = 0

\* C5: every order in the order collection has status "pending".
C5_AllOrdersPending ==
    \A i \in DOMAIN order : order[i].status = "pending"

\* two orders are stored, the second one just created
C5_Witness ==
    /\ Len(order) = 2
    /\ resp[1].op = "create_order"
    /\ resp[1].status = 201
    /\ order[2].status = "pending"

OrderFields ==
    {"_id", "customer", "items", "subtotal", "tax", "total", "status",
     "table_number", "pickup"}

\* C7: a create_order whose body is valid either adds one whole order
\* document to the order collection and answers 201 with its identifier
\* and its total, or answers 500 with no identifier and leaves the order
\* collection as it was.
C7_OrderWrittenWholeOrNotAtAll ==
    [][\A w \in Serial : \A req \in OrderRequests :
          (CreateOrder(w, req) /\ resp'[w].status # 422)
              => \/ /\ resp'[w].status = 201
                    /\ Len(order') = Len(order) + 1
                    /\ SubSeq(order', 1, Len(order)) = order
                    /\ DOMAIN order'[Len(order')] = OrderFields
                    /\ order'[Len(order')].items = req.items
                    /\ resp'[w].id = IdString(order'[Len(order')]._id)
                    /\ resp'[w].total = order'[Len(order')].total
                 \/ /\ resp'[w].status = 500
                    /\ "id" \notin DOMAIN resp'[w]
                    /\ order' = order]_vars

\* a store error on a create_order, after an order had been stored
C7_Witness ==
    /\ resp[1].op = "create_order"
    /\ resp[1].status = 500
    /\ Len(order) = 1
    /\ dbUp

CountOf(name) == Cardinality({i \in DOMAIN menuitem : menuitem[i].name = name})

BothReportFive ==
    \A w \in Workers :
        /\ resp[w].op = "seed_menu"
        /\ resp[w].status = 200
        /\ resp[w].inserted = 5

\* C8: two seed_menu calls on two threads can both pass the emptiness
\* check; when both have returned inserted=5, the collection holds every
\* sample twice.
C8_BothSeedsInsert ==
    BothReportFive => \A n \in SampleNames : CountOf(n) = 2

\* both calls have returned inserted=5 and ten records are stored
C8_Witness ==
    /\ BothReportFive
    /\ Len(menuitem) = 10

\* C9: a POST /api/menu whose name or category is the empty string is
\* answered 422 and leaves the menuitem collection as it was (the calls
\* that a store error ends are left aside: they too got past validation).
C9_EmptyNameRejected ==
    [][\A w \in Serial : \A req \in MenuItemRequests :
          (/\ \/ ("name" \in DOMAIN req /\ req.name = "")
              \/ ("category" \in DOMAIN req /\ req.category = "")
           /\ AddMenuItem(w, req)
           /\ resp'[w].status # 500)
              => (resp'[w].status = 422 /\ menuitem' = menuitem)]_vars

Seeded == Cardinality({i \in DOMAIN menuitem : menuitem[i].name \in SampleNames})

\* C10: with requests served one after the other, a store error on an
\* insert of seed_menu ends the call in a 500 and leaves the samples
\* inserted before it in the collection; and once a seed has left between
\* one and four samples, a later seed_menu goes no further than the count
\* (it returns inserted=0 unless the count fails) and no later step
\* changes the number of samples.
C10_PartialSeedStays ==
    [][\A w \in Serial :
          /\ (SeedInsert(w) /\ resp'[w].status = 500 /\ pc'[w] = "idle")
                => /\ menuitem' = menuitem
                   /\ Len(menuitem) = inserted[w]
                   /\ \A i \in 1..inserted[w] : menuitem[i].name = Samples[i].name
          /\ (SeedCheck(w) /\ Seeded \in 1..4)
                => /\ pc'[w] = "idle"
                   /\ resp'[w].status = 200 => resp'[w].inserted = 0
          /\ (pc[w] = "idle" /\ Seeded \in 1..4) => Seeded' = Seeded]_vars

\* a seed stopped by the third insert, and the seed after it returned 0
C10_Witness ==
    /\ Len(menuitem) = 2
    /\ Seeded = 2
    /\ inserted[1] = 2
    /\ resp[1].op = "seed_menu"
    /\ resp[1].status = 200
    /\ resp[1].inserted = 0

=============================================================================
